---- MODULE Spec2Model ----
(***************************************************************************)
(* BumpBox ESP32-CAM firmware (src/esp32/bumpbox_camera/src/main.cpp):     *)
(* setup(), loop(), connectWiFi(), captureAndSend(), sendToServer() and    *)
(* parseResponse() as one sequential program, together with its            *)
(* environment (button, serial line, WiFi link, camera driver, server).    *)
(*                                                                         *)
(* Time is counted in ticks of LOOP_DELAY_MS (50 ms); every delay() of the *)
(* firmware is a whole number of ticks.  The firmware reads the clock only *)
(* through the differences millis() - lastButtonPress and millis() - start,*)
(* so the model keeps these two differences, saturated one tick above the  *)
(* threshold they are compared with.                                       *)
(***************************************************************************)
EXTENDS Integers, Sequences, FiniteSets

\* ------------------------------------------------------------ constants
DEBOUNCE_MS == 300
WIFI_TIMEOUT_MS == 15000
FLASH_WARMUP_MS == 150
LOOP_DELAY_MS == 50
WIFI_POLL_MS == 500
BLINK_MS == 150
SETUP_DELAY_MS == 1000
SUCCESS_FLASH_MS == 100
SUCCESS_FLASHES == 2
SIZE_LIMIT == 1000000
HTTP_OK == 200

\* Bumpbox_S3/src/main.cpp
S3_DEBOUNCE_MS == 50
LID_DELAY_MS == 500
SOLENOID_ON_MS == 2000
POLL_INTERVAL == 5000
S3_WIFI_TIMEOUT_MS == 15000
S3_WIFI_POLL_MS == 500
S3_HTTP_TIMEOUT_MS == 5000
RELAY_ON == "LOW"
RELAY_OFF == "HIGH"

\* ------------------------------------------------------------ bounds
\* Bytes the serial receive buffer holds before further bytes are dropped.
MaxSerial == 1
\* Ghost counters saturate here.
MaxCount == 2
\* Longest image (bytes) sendToServer's assembly is checked with.
MaxImageLen == 3

Min(a, b) == IF a < b THEN a ELSE b
Ticks(ms) == ms \div LOOP_DELAY_MS
SinceCap == Ticks(DEBOUNCE_MS) + 1
WifiCap == Ticks(WIFI_TIMEOUT_MS) + 1
Bump(n) == Min(n + 1, MaxCount)
\* Time a blocking driver call (fb_get, POST) may take: none, or longer than
\* the debounce window (every saturated difference is then at its cap).
IoTicks == {0, SinceCap}

\* Frame lengths the camera driver may report (fb->len): the two around the limit.
FrameLens == {SIZE_LIMIT, SIZE_LIMIT + 1}
\* Results of http.POST: 200, another status, and one of HTTPClient's negative
\* errors (-11, read timeout).
HttpCodes == {HTTP_OK, 500, -11}
\* Shapes of the response text as parseResponse distinguishes them.
Responses == {"malformed", "success_absent", "success_false", "success_true"}
\* Bytes typed on the serial line: the two trigger commands and any other byte.
SerialChars == {"c", "C", "x"}
NULL == 0
FRAMES == {1, 2}

VARIABLES
    pc,                    \* position of the single control flow
    wifiRet,               \* where connectWiFi returns to: "setup" or "loop"
    flashLed,              \* FLASH_LED_PIN is HIGH
    flashI,                \* flashLED's loop counter i
    fb,                    \* captureAndSend's local fb: NULL or a frame
    fbLen,                 \* fb->len
    held,                  \* frames acquired from the driver and not returned
    body,                  \* sendToServer's payload: "none", "alloc", "freed"
    code,                  \* sendToServer's local code (0 before the POST)
    resp,                  \* text of the response read on a 200
    ok,                    \* captureAndSend's local ok: "unset", "true", "false"
    trigger,               \* loop's local trigger
    wifi,                  \* WiFi.status() == WL_CONNECTED
    button,                \* digitalRead(BUTTON_PIN): "LOW" or "HIGH"
    serial,                \* bytes waiting in the serial receive buffer
    sinceLastButtonPress,  \* millis() - lastButtonPress, in ticks, saturated
    wifiElapsed,           \* millis() - start inside connectWiFi, saturated
    \* history of the current loop iteration (reset when loop() polls)
    acquired,              \* fb_get calls that returned a frame
    released,              \* frame |-> number of esp_camera_fb_return calls
    allocs,                \* ps_malloc calls
    posts,                 \* http.POST calls
    postedFrame,           \* frame whose bytes were handed to sendToServer
    parsed,                \* what parseResponse reported
    signals,               \* status signals emitted, in order
    wifiAtCheck,           \* what the check of line 371 found
    trigMid,               \* the serial command behind trigger arrived mid-invocation
    \* history of the environment
    pressTriggers,         \* button triggers delivered in the current press
    serialHeadMid,         \* the first buffered byte arrived mid-invocation
    cameraOk,              \* what initCamera() returned: "unknown", "ok", "failed"
    \* an observer comparing two iterations
    refOutcome,            \* outcome of a remembered earlier iteration
    refSignal,             \* the status signal that iteration ended with
    \* sendToServer's assembly of the multipart body, byte by byte
    encPc,                 \* position in lines 228-252
    imageData,             \* the bytes imageData points to (imageLen of them)
    totalLen,              \* sendToServer's local totalLen
    encBody,               \* the bytes body points to
    offset,                \* sendToServer's local offset
    posted,                \* the arguments of http.POST: <<bytes, length>>
    \* parseResponse on its own
    parsePc,               \* "idle", "call" (about to be called), "done"
    response,              \* the response text
    printed,               \* what parseResponse printed: <<>> or <<result>>
    \* the solenoid firmware (Bumpbox_S3)
    s3Pc,                  \* position of its single control flow
    relay,                 \* level written to RELAY_PIN: "LOW" or "HIGH"
    solenoidBackendOn,     \* the global of line 29
    lastSteadyState,       \* the global of line 24
    lastFlickerableState,  \* the global of line 25
    currentState,          \* the global of line 26
    sincePoll,             \* millis() - lastPollTime, in ticks, saturated
    sinceDebounce,         \* millis() - lastDebounceTime, in ticks, saturated
    httpCode,              \* checkSolenoidState's local httpCode (0 before the GET)
    payload,               \* the text read on a 200, as deserializeJson sees it
    \* history of the switch
    lastReading,           \* the previous digitalRead(SWITCH_PIN): "none" before the first
    stableFor,             \* time since a reading last differed from the one before it
    activations            \* local activations started since steady HIGH was registered

prog == <<pc, wifiRet, flashLed, flashI, fb, fbLen, held, body, code, resp, ok,
          trigger, sinceLastButtonPress, wifiElapsed>>
hist == <<acquired, released, allocs, posts, postedFrame, parsed,
          signals, wifiAtCheck, trigMid>>
env == <<wifi, button, serial, pressTriggers, serialHeadMid>>
\* Everything the camera firmware and its environment never write.
s3Hist == <<lastReading, stableFor, activations>>
s3 == <<s3Pc, relay, solenoidBackendOn, lastSteadyState, lastFlickerableState,
        currentState, sincePoll, sinceDebounce, httpCode, payload, s3Hist>>
aux == <<refOutcome, refSignal, encPc, imageData, totalLen, encBody, offset, posted,
         parsePc, response, printed, s3>>
vars == <<prog, hist, env, cameraOk, aux>>

\* Positions inside captureAndSend (sendToServer and parseResponse included).
CapturePcs == {"cs_flash_on", "cs_get1", "cs_ret1", "cs_get2", "cs_flash_off",
               "cs_check_null", "cs_check_size", "send_alloc",
               "send_post", "send_free", "send_result", "cs_release",
               "cs_signal", "flash_on", "flash_off"}
InInvocation == pc \in CapturePcs

\* delay(ms) and the time a blocking call takes: both differences grow.
Elapse(t) ==
    /\ sinceLastButtonPress' = Min(sinceLastButtonPress + t, SinceCap)
    /\ wifiElapsed' = IF pc = "wifi_wait" THEN Min(wifiElapsed + t, WifiCap) ELSE wifiElapsed

\* blinkError(times): the status LED ends OFF; 2 * 150 ms per blink.
BlinkTicks(times) == times * 2 * Ticks(BLINK_MS)
BlinkError(times) == <<"blinkError", times>>
FlashSignal == <<"flashLED", SUCCESS_FLASHES>>

NoHistory ==
    /\ acquired = 0
    /\ released = [f \in FRAMES |-> 0]
    /\ allocs = 0
    /\ posts = 0
    /\ postedFrame = NULL
    /\ parsed = "none"
    /\ signals = <<>>
    /\ wifiAtCheck = "unchecked"
    /\ trigMid = FALSE

\* Nothing is remembered.
ObserverIdle ==
    /\ refOutcome = "none"
    /\ refSignal = <<>>

\* The camera firmware and its environment when setup() is entered.
CameraInit ==
    /\ pc = "setup"
    /\ wifiRet = "setup"
    /\ flashLed = FALSE
    /\ flashI = 0
    /\ fb = NULL
    /\ fbLen = 0
    /\ held = {}
    /\ body = "none"
    /\ code = 0
    /\ resp = "none"
    /\ ok = "unset"
    /\ trigger = FALSE
    /\ wifi \in BOOLEAN
    /\ button = "HIGH"
    /\ serial = <<>>
    /\ sinceLastButtonPress = 0
    /\ wifiElapsed = 0
    /\ NoHistory
    /\ pressTriggers = 0
    /\ serialHeadMid = FALSE
    /\ cameraOk = "unknown"

\* ------------------------------------------------------------ setup()
\* Setup that goes on to connectWiFi() although initCamera() failed.
SetupNoHalt ==
    /\ pc = "setup"
    /\ flashLed' = FALSE
    /\ Elapse(Ticks(SETUP_DELAY_MS))
    /\ \E initOk \in BOOLEAN : cameraOk' = IF initOk THEN "ok" ELSE "failed"
    /\ pc' = "wifi_wait"
    /\ wifiRet' = "setup"
    /\ UNCHANGED <<flashI, fb, fbLen, held, body, code, resp, ok, trigger>>
    /\ UNCHANGED <<hist, env, aux>>

\* setup(): pins, LEDs off, initCamera(); on failure the halt loop, otherwise
\* connectWiFi() and then loop().
Setup ==
    /\ pc = "setup"
    /\ flashLed' = FALSE
    /\ Elapse(Ticks(SETUP_DELAY_MS))
    /\ \E initOk \in BOOLEAN :
          /\ cameraOk' = IF initOk THEN "ok" ELSE "failed"
          /\ pc' = IF initOk THEN "wifi_wait" ELSE "halt"
    /\ wifiRet' = "setup"
    /\ UNCHANGED <<flashI, fb, fbLen, held, body, code, resp, ok, trigger>>
    /\ UNCHANGED <<hist, env, aux>>

\* while (true) { blinkError(3); delay(2000); }
Halt ==
    /\ pc = "halt"
    /\ signals' = <<BlinkError(3)>>
    /\ Elapse(BlinkTicks(3) + Ticks(2000))
    /\ UNCHANGED <<pc, wifiRet, flashLed, flashI, fb, fbLen, held, body,
                   code, resp, ok, trigger>>
    /\ UNCHANGED <<acquired, released, allocs, posts, postedFrame, parsed,
                   wifiAtCheck, trigMid>>
    /\ UNCHANGED <<env, cameraOk, aux>>

\* ------------------------------------------------------------ connectWiFi()
WifiReturnPc == IF wifiRet = "setup" THEN "loop_poll" ELSE "loop_check"

\* WifiWait without the timeout of line 104.
WifiWaitForever ==
    /\ pc = "wifi_wait"
    /\ IF wifi
         THEN /\ pc' = WifiReturnPc
              /\ wifiElapsed' = 0
              /\ UNCHANGED sinceLastButtonPress
         ELSE /\ Elapse(Ticks(WIFI_POLL_MS))
              /\ UNCHANGED pc
    /\ UNCHANGED <<wifiRet, flashLed, flashI, fb, fbLen, held, body, code,
                   resp, ok, trigger>>
    /\ UNCHANGED <<hist, env, cameraOk, aux>>

\* One evaluation of the while condition of connectWiFi and of its body.
WifiWait ==
    /\ pc = "wifi_wait"
    /\ IF wifi
         THEN /\ pc' = WifiReturnPc
              /\ wifiElapsed' = 0
              /\ UNCHANGED <<sinceLastButtonPress, signals>>
         ELSE IF wifiElapsed > Ticks(WIFI_TIMEOUT_MS)
                THEN /\ signals' = Append(signals, BlinkError(3))
                     /\ sinceLastButtonPress' =
                            Min(sinceLastButtonPress + BlinkTicks(3), SinceCap)
                     /\ wifiElapsed' = 0
                     /\ pc' = WifiReturnPc
                ELSE /\ Elapse(Ticks(WIFI_POLL_MS))
                     /\ UNCHANGED <<pc, signals>>
    /\ UNCHANGED <<wifiRet, flashLed, flashI, fb, fbLen, held, body, code,
                   resp, ok, trigger>>
    /\ UNCHANGED <<acquired, released, allocs, posts, postedFrame, parsed,
                   wifiAtCheck, trigMid>>
    /\ UNCHANGED <<env, cameraOk, aux>>

\* ------------------------------------------------------------ loop()
ButtonFires == button = "LOW" /\ sinceLastButtonPress > Ticks(DEBOUNCE_MS)
SerialFires == serial # <<>> /\ Head(serial) \in {"c", "C"}

\* Lines 347-364: the button check and the serial command check.  The locals of
\* the calls of the previous iteration no longer exist, and the history of the
\* iteration starts empty.
LoopPoll ==
    /\ pc = "loop_poll"
    /\ trigger' = (ButtonFires \/ SerialFires)
    /\ sinceLastButtonPress' = IF ButtonFires THEN 0 ELSE sinceLastButtonPress
    /\ serial' = <<>>
    /\ pc' = "loop_dispatch"
    /\ acquired' = 0
    /\ released' = [f \in FRAMES |-> 0]
    /\ allocs' = 0
    /\ posts' = 0
    /\ postedFrame' = NULL
    /\ parsed' = "none"
    /\ signals' = <<>>
    /\ wifiAtCheck' = "unchecked"
    /\ trigMid' = (SerialFires /\ serialHeadMid)
    /\ pressTriggers' = IF ButtonFires THEN Bump(pressTriggers) ELSE pressTriggers
    /\ serialHeadMid' = FALSE
    /\ code' = 0
    /\ resp' = "none"
    /\ ok' = "unset"
    /\ body' = "none"
    /\ fb' = NULL
    /\ fbLen' = 0
    /\ flashI' = 0
    /\ UNCHANGED <<wifiRet, flashLed, held, wifiElapsed>>
    /\ UNCHANGED <<wifi, button>>
    /\ UNCHANGED <<cameraOk, aux>>

\* Lines 366-370: if (trigger) { if (WiFi.status() != WL_CONNECTED) connectWiFi(); ...
LoopDispatch ==
    /\ pc = "loop_dispatch"
    /\ IF ~trigger
         THEN pc' = "loop_delay" /\ UNCHANGED <<wifiRet, wifiElapsed>>
         ELSE IF ~wifi
                THEN pc' = "wifi_wait" /\ wifiRet' = "loop" /\ wifiElapsed' = 0
                ELSE pc' = "loop_check" /\ UNCHANGED <<wifiRet, wifiElapsed>>
    /\ UNCHANGED <<flashLed, flashI, fb, fbLen, held, body, code, resp, ok,
                   trigger, sinceLastButtonPress>>
    /\ UNCHANGED <<hist, env, cameraOk, aux>>

\* LoopCheck that captures whatever the link's state.
LoopCheckAlways ==
    /\ pc = "loop_check"
    /\ wifiAtCheck' = IF wifi THEN "connected" ELSE "absent"
    /\ pc' = "cs_flash_on"
    /\ UNCHANGED <<wifiRet, flashLed, flashI, fb, fbLen, held, body, code,
                   resp, ok, trigger, sinceLastButtonPress, wifiElapsed>>
    /\ UNCHANGED <<acquired, released, allocs, posts, postedFrame, parsed, signals,
                   trigMid>>
    /\ UNCHANGED <<env, cameraOk, aux>>

\* Lines 371-376: captureAndSend() when connected, else blinkError(3).
LoopCheck ==
    /\ pc = "loop_check"
    /\ IF wifi
         THEN /\ wifiAtCheck' = "connected"
              /\ pc' = "cs_flash_on"
              /\ UNCHANGED <<signals, sinceLastButtonPress>>
         ELSE /\ wifiAtCheck' = "absent"
              /\ signals' = Append(signals, BlinkError(3))
              /\ sinceLastButtonPress' =
                     Min(sinceLastButtonPress + BlinkTicks(3), SinceCap)
              /\ pc' = "loop_delay"
    /\ UNCHANGED <<wifiRet, flashLed, flashI, fb, fbLen, held, body, code,
                   resp, ok, trigger, wifiElapsed>>
    /\ UNCHANGED <<acquired, released, allocs, posts, postedFrame, parsed,
                   trigMid>>
    /\ UNCHANGED <<env, cameraOk, aux>>

\* Line 379: delay(50), then loop() is entered again.
LoopDelay ==
    /\ pc = "loop_delay"
    /\ Elapse(Ticks(LOOP_DELAY_MS))
    /\ pc' = "loop_poll"
    /\ UNCHANGED <<wifiRet, flashLed, flashI, fb, fbLen, held, body, code,
                   resp, ok, trigger>>
    /\ UNCHANGED <<hist, env, cameraOk, aux>>

\* ------------------------------------------------------------ camera driver
\* esp_camera_fb_get() called for the id-th time in this invocation: the driver
\* answers NULL or a frame, after some time.
FbGet(id) ==
    /\ \E d \in IoTicks : Elapse(d)
    /\ \/ /\ fb' = NULL
          /\ fbLen' = 0
          /\ UNCHANGED <<held, acquired>>
       \/ /\ fb' = id
          /\ fbLen' \in FrameLens
          /\ held' = held \cup {id}
          /\ acquired' = acquired + 1

\* esp_camera_fb_return(f)
FbReturn(f) ==
    /\ held' = held \ {f}
    /\ released' = [released EXCEPT ![f] = Bump(@)]

\* ------------------------------------------------------------ captureAndSend()
\* Lines 276-278: flash ON, delay(FLASH_WARMUP_MS).
CsFlashOn ==
    /\ pc = "cs_flash_on"
    /\ flashLed' = TRUE
    /\ Elapse(Ticks(FLASH_WARMUP_MS))
    /\ pc' = "cs_get1"
    /\ UNCHANGED <<wifiRet, flashI, fb, fbLen, held, body, code, resp, ok,
                   trigger>>
    /\ UNCHANGED <<hist, env, cameraOk, aux>>

\* Line 281: camera_fb_t* fb = esp_camera_fb_get();
CsGet1 ==
    /\ pc = "cs_get1"
    /\ FbGet(1)
    /\ pc' = "cs_ret1"
    /\ UNCHANGED <<wifiRet, flashLed, flashI, body, code, resp, ok, trigger>>
    /\ UNCHANGED <<released, allocs, posts, postedFrame, parsed, signals,
                   wifiAtCheck, trigMid>>
    /\ UNCHANGED <<env, cameraOk, aux>>

\* CsRet1 without the release: the discarded frame stays held.
CsRet1Skip ==
    /\ pc = "cs_ret1"
    /\ pc' = "cs_get2"
    /\ UNCHANGED <<wifiRet, flashLed, flashI, fb, fbLen, held, body, code, resp, ok,
                   trigger, sinceLastButtonPress, wifiElapsed>>
    /\ UNCHANGED <<hist, env, cameraOk, aux>>

\* Line 282: if (fb) esp_camera_fb_return(fb);
CsRet1 ==
    /\ pc = "cs_ret1"
    /\ IF fb # NULL THEN FbReturn(fb) ELSE UNCHANGED <<held, released>>
    /\ pc' = "cs_get2"
    /\ UNCHANGED <<wifiRet, flashLed, flashI, fb, fbLen, body, code, resp,
                   ok, trigger, sinceLastButtonPress, wifiElapsed>>
    /\ UNCHANGED <<acquired, allocs, posts, postedFrame, parsed, signals,
                   wifiAtCheck, trigMid>>
    /\ UNCHANGED <<env, cameraOk, aux>>

\* CsGet2 without the second acquisition: the frame of line 281 is used.
CsGet2Reuse ==
    /\ pc = "cs_get2"
    /\ pc' = "cs_flash_off"
    /\ UNCHANGED <<wifiRet, flashLed, flashI, fb, fbLen, held, body, code, resp, ok,
                   trigger, sinceLastButtonPress, wifiElapsed>>
    /\ UNCHANGED <<hist, env, cameraOk, aux>>

\* Line 285: fb = esp_camera_fb_get();
CsGet2 ==
    /\ pc = "cs_get2"
    /\ FbGet(2)
    /\ pc' = "cs_flash_off"
    /\ UNCHANGED <<wifiRet, flashLed, flashI, body, code, resp, ok, trigger>>
    /\ UNCHANGED <<released, allocs, posts, postedFrame, parsed, signals,
                   wifiAtCheck, trigMid>>
    /\ UNCHANGED <<env, cameraOk, aux>>

\* CsFlashOff that leaves the flash on (switched off only by flashLED()).
CsFlashOffLate ==
    /\ pc = "cs_flash_off"
    /\ pc' = "cs_check_null"
    /\ UNCHANGED <<wifiRet, flashLed, flashI, fb, fbLen, held, body, code, resp, ok,
                   trigger, sinceLastButtonPress, wifiElapsed>>
    /\ UNCHANGED <<hist, env, cameraOk, aux>>

\* Line 286: digitalWrite(FLASH_LED_PIN, LOW);
CsFlashOff ==
    /\ pc = "cs_flash_off"
    /\ flashLed' = FALSE
    /\ pc' = "cs_check_null"
    /\ UNCHANGED <<wifiRet, flashI, fb, fbLen, held, body, code, resp, ok,
                   trigger, sinceLastButtonPress, wifiElapsed>>
    /\ UNCHANGED <<hist, env, cameraOk, aux>>

\* CsCheckNull that returns on a NULL frame without any signal.
CsCheckNullSilent ==
    /\ pc = "cs_check_null"
    /\ pc' = IF fb = NULL THEN "loop_delay" ELSE "cs_check_size"
    /\ UNCHANGED <<wifiRet, flashLed, flashI, fb, fbLen, held, body, code,
                   resp, ok, trigger, sinceLastButtonPress, wifiElapsed>>
    /\ UNCHANGED <<hist, env, cameraOk, aux>>

\* Lines 288-292: if (!fb) { blinkError(5); return; }
CsCheckNull ==
    /\ pc = "cs_check_null"
    /\ IF fb = NULL
         THEN /\ signals' = Append(signals, BlinkError(5))
              /\ Elapse(BlinkTicks(5))
              /\ pc' = "loop_delay"
         ELSE /\ pc' = "cs_check_size"
              /\ UNCHANGED <<signals, sinceLastButtonPress, wifiElapsed>>
    /\ UNCHANGED <<wifiRet, flashLed, flashI, fb, fbLen, held, body, code,
                   resp, ok, trigger>>
    /\ UNCHANGED <<acquired, released, allocs, posts, postedFrame, parsed,
                   wifiAtCheck, trigMid>>
    /\ UNCHANGED <<env, cameraOk, aux>>

\* TooBig with >= for >.
TooBigOffByOne(len) == len >= SIZE_LIMIT

\* The test of line 296.
TooBig(len) == len > SIZE_LIMIT

\* CsCheckSize whose rejection path returns without releasing the frame.
CsCheckSizeLeak ==
    /\ pc = "cs_check_size"
    /\ IF fbLen > SIZE_LIMIT
         THEN /\ signals' = Append(signals, BlinkError(4))
              /\ Elapse(BlinkTicks(4))
              /\ pc' = "loop_delay"
              /\ UNCHANGED postedFrame
         ELSE /\ postedFrame' = fb
              /\ pc' = "send_alloc"
              /\ UNCHANGED <<signals, sinceLastButtonPress, wifiElapsed>>
    /\ UNCHANGED <<wifiRet, flashLed, flashI, fb, fbLen, held, body, code, resp,
                   ok, trigger>>
    /\ UNCHANGED <<acquired, released, allocs, posts, parsed, wifiAtCheck, trigMid>>
    /\ UNCHANGED <<env, cameraOk, aux>>

\* Lines 296-303: the size check; on rejection return the frame and
\* blinkError(4), otherwise call sendToServer(fb->buf, fb->len).
CsCheckSize ==
    /\ pc = "cs_check_size"
    /\ IF TooBig(fbLen)
         THEN /\ FbReturn(fb)
              /\ signals' = Append(signals, BlinkError(4))
              /\ Elapse(BlinkTicks(4))
              /\ pc' = "loop_delay"
              /\ UNCHANGED postedFrame
         ELSE /\ postedFrame' = fb
              /\ pc' = "send_alloc"
              /\ UNCHANGED <<held, released, signals, sinceLastButtonPress,
                             wifiElapsed>>
    /\ UNCHANGED <<wifiRet, flashLed, flashI, fb, fbLen, body, code, resp,
                   ok, trigger>>
    /\ UNCHANGED <<acquired, allocs, posts, parsed, wifiAtCheck, trigMid>>
    /\ UNCHANGED <<env, cameraOk, aux>>

\* ------------------------------------------------------------ sendToServer()
\* Lines 232-236: body = ps_malloc(totalLen); NULL makes sendToServer return false.
SendAlloc ==
    /\ pc = "send_alloc"
    /\ allocs' = Bump(allocs)
    /\ \/ body' = "alloc" /\ pc' = "send_post" /\ UNCHANGED ok
       \/ body' = "none" /\ ok' = "false" /\ pc' = "cs_release"
    /\ UNCHANGED <<wifiRet, flashLed, flashI, fb, fbLen, held, code, resp,
                   trigger, sinceLastButtonPress, wifiElapsed>>
    /\ UNCHANGED <<acquired, released, posts, postedFrame, parsed, signals,
                   wifiAtCheck, trigMid>>
    /\ UNCHANGED <<env, cameraOk, aux>>

\* What http.POST can return: without a link only HTTPClient's negative errors.
PostCodes == IF wifi THEN HttpCodes ELSE {c \in HttpCodes : c < 0}

\* Line 252: int code = http.POST(body, totalLen);
SendPost ==
    /\ pc = "send_post"
    /\ posts' = Bump(posts)
    /\ \E c \in PostCodes :
          /\ code' = c
          /\ IF c = HTTP_OK THEN resp' \in Responses ELSE resp' = "none"
    /\ \E d \in IoTicks : Elapse(d)
    /\ pc' = "send_free"
    /\ UNCHANGED <<wifiRet, flashLed, flashI, fb, fbLen, held, body, ok,
                   trigger>>
    /\ UNCHANGED <<acquired, released, allocs, postedFrame, parsed, signals,
                   wifiAtCheck, trigMid>>
    /\ UNCHANGED <<env, cameraOk, aux>>

\* SendFree that frees the payload only after a 200 answer.
SendFreeOnSuccess ==
    /\ pc = "send_free"
    /\ body' = IF code = HTTP_OK THEN "freed" ELSE body
    /\ pc' = "send_result"
    /\ UNCHANGED <<wifiRet, flashLed, flashI, fb, fbLen, held, code, resp,
                   ok, trigger, sinceLastButtonPress, wifiElapsed>>
    /\ UNCHANGED <<hist, env, cameraOk, aux>>

\* Line 253: free(body);
SendFree ==
    /\ pc = "send_free"
    /\ body' = "freed"
    /\ pc' = "send_result"
    /\ UNCHANGED <<wifiRet, flashLed, flashI, fb, fbLen, held, code, resp,
                   ok, trigger, sinceLastButtonPress, wifiElapsed>>
    /\ UNCHANGED <<hist, env, cameraOk, aux>>

\* parseResponse(response): what it reports for each shape of the text.
ParseResponse(r) ==
    CASE r = "malformed" -> "ParseFailure"
      [] r \in {"success_absent", "success_false"} -> "ServerError"
      [] r = "success_true" -> "Detection"

\* The value sendToServer returns for a POST result (lines 255-268).
SendReturns(c) == c = HTTP_OK

\* SendResult that builds and posts the payload again after a failed POST.
SendResultRetry ==
    /\ pc = "send_result"
    /\ parsed' = IF code = HTTP_OK THEN ParseResponse(resp) ELSE "none"
    /\ ok' = IF SendReturns(code) THEN "true" ELSE "false"
    /\ pc' = IF SendReturns(code) \/ allocs > 1 THEN "cs_release" ELSE "send_alloc"
    /\ UNCHANGED <<wifiRet, flashLed, flashI, fb, fbLen, held, body, code,
                   resp, trigger, sinceLastButtonPress, wifiElapsed>>
    /\ UNCHANGED <<acquired, released, allocs, posts, postedFrame, signals,
                   wifiAtCheck, trigMid>>
    /\ UNCHANGED <<env, cameraOk, aux>>

\* Lines 255-268: on 200 parseResponse(resp) and return true, else return false.
SendResult ==
    /\ pc = "send_result"
    /\ parsed' = IF code = HTTP_OK THEN ParseResponse(resp) ELSE "none"
    /\ ok' = IF SendReturns(code) THEN "true" ELSE "false"
    /\ pc' = "cs_release"
    /\ UNCHANGED <<wifiRet, flashLed, flashI, fb, fbLen, held, body, code,
                   resp, trigger, sinceLastButtonPress, wifiElapsed>>
    /\ UNCHANGED <<acquired, released, allocs, posts, postedFrame, signals,
                   wifiAtCheck, trigMid>>
    /\ UNCHANGED <<env, cameraOk, aux>>

\* ------------------------------------------------------------ captureAndSend(), end
\* Line 304: esp_camera_fb_return(fb);
CsRelease ==
    /\ pc = "cs_release"
    /\ FbReturn(fb)
    /\ pc' = "cs_signal"
    /\ UNCHANGED <<wifiRet, flashLed, flashI, fb, fbLen, body, code, resp,
                   ok, trigger, sinceLastButtonPress, wifiElapsed>>
    /\ UNCHANGED <<acquired, allocs, posts, postedFrame, parsed, signals,
                   wifiAtCheck, trigMid>>
    /\ UNCHANGED <<env, cameraOk, aux>>

\* Lines 306-310: if (ok) flashLED(2, 100); else blinkError(5);
CsSignal ==
    /\ pc = "cs_signal"
    /\ IF ok = "true"
         THEN /\ signals' = Append(signals, FlashSignal)
              /\ flashI' = 0
              /\ pc' = "flash_on"
              /\ UNCHANGED <<sinceLastButtonPress, wifiElapsed>>
         ELSE /\ signals' = Append(signals, BlinkError(5))
              /\ Elapse(BlinkTicks(5))
              /\ pc' = "loop_delay"
              /\ UNCHANGED flashI
    /\ UNCHANGED <<wifiRet, flashLed, fb, fbLen, held, body, code, resp, ok,
                   trigger>>
    /\ UNCHANGED <<acquired, released, allocs, posts, postedFrame, parsed,
                   wifiAtCheck, trigMid>>
    /\ UNCHANGED <<env, cameraOk, aux>>

\* ------------------------------------------------------------ flashLED(2, 100)
\* Lines 77-78: digitalWrite(FLASH_LED_PIN, HIGH); delay(durationMs);
FlashOn ==
    /\ pc = "flash_on"
    /\ flashLed' = TRUE
    /\ Elapse(Ticks(SUCCESS_FLASH_MS))
    /\ pc' = "flash_off"
    /\ UNCHANGED <<wifiRet, flashI, fb, fbLen, held, body, code, resp, ok,
                   trigger>>
    /\ UNCHANGED <<hist, env, cameraOk, aux>>

\* FlashOff that does not switch the LED off after the last flash.
FlashOffLastStaysOn ==
    /\ pc = "flash_off"
    /\ IF flashI < SUCCESS_FLASHES - 1
         THEN /\ flashLed' = FALSE
              /\ Elapse(Ticks(SUCCESS_FLASH_MS))
              /\ flashI' = flashI + 1
              /\ pc' = "flash_on"
         ELSE /\ pc' = "loop_delay"
              /\ UNCHANGED <<flashLed, flashI, sinceLastButtonPress, wifiElapsed>>
    /\ UNCHANGED <<wifiRet, fb, fbLen, held, body, code, resp, ok, trigger>>
    /\ UNCHANGED <<hist, env, cameraOk, aux>>

\* Lines 79-81: digitalWrite(FLASH_LED_PIN, LOW); if (i < times - 1) delay(...); i++
FlashOff ==
    /\ pc = "flash_off"
    /\ flashLed' = FALSE
    /\ IF flashI < SUCCESS_FLASHES - 1
         THEN /\ Elapse(Ticks(SUCCESS_FLASH_MS))
              /\ flashI' = flashI + 1
              /\ pc' = "flash_on"
         ELSE /\ pc' = "loop_delay"
              /\ UNCHANGED <<flashI, sinceLastButtonPress, wifiElapsed>>
    /\ UNCHANGED <<wifiRet, fb, fbLen, held, body, code, resp, ok, trigger>>
    /\ UNCHANGED <<hist, env, cameraOk, aux>>

\* ------------------------------------------------------------ environment
\* The button goes down (the pin reads LOW): a new physical press begins.
ButtonPress ==
    /\ button = "HIGH"
    /\ button' = "LOW"
    /\ pressTriggers' = 0
    /\ UNCHANGED <<wifi, serial, serialHeadMid>>
    /\ UNCHANGED <<prog, hist, cameraOk, aux>>

ButtonRelease ==
    /\ button = "LOW"
    /\ button' = "HIGH"
    /\ pressTriggers' = 0
    /\ UNCHANGED <<wifi, serial, serialHeadMid>>
    /\ UNCHANGED <<prog, hist, cameraOk, aux>>

\* A byte arrives on the serial line and waits in the receive buffer.
SerialArrive ==
    /\ Len(serial) < MaxSerial
    /\ \E ch \in SerialChars : serial' = Append(serial, ch)
    /\ serialHeadMid' = IF serial = <<>> THEN InInvocation ELSE serialHeadMid
    /\ UNCHANGED <<wifi, button, pressTriggers>>
    /\ UNCHANGED <<prog, hist, cameraOk, aux>>

\* The WiFi link comes up or goes down.
WifiChange ==
    /\ wifi' = ~wifi
    /\ UNCHANGED <<button, serial, pressTriggers, serialHeadMid>>
    /\ UNCHANGED <<prog, hist, cameraOk, aux>>

\* ------------------------------------------------------------ multipart body
\* The strings of sendToServer, byte by byte.
\* Line 222: "----BumpBoxESP32Boundary"
Boundary ==
    <<"-", "-", "-", "-", "B", "u", "m", "p", "B", "o", "x", "E", "S", "P",
      "3", "2", "B", "o", "u", "n", "d", "a", "r", "y">>
\* "\r\n"
CRLF ==
    <<"\r", "\n">>
\* "--"
Dashes ==
    <<"-", "-">>
\* Line 224, without its "\r\n"
Disposition ==
    <<"C", "o", "n", "t", "e", "n", "t", "-", "D", "i", "s", "p", "o", "s",
      "i", "t", "i", "o", "n", ":", " ", "f", "o", "r", "m", "-", "d", "a",
      "t", "a", ";", " ", "n", "a", "m", "e", "=", "\"", "i", "m", "a", "g",
      "e", "\"", ";", " ", "f", "i", "l", "e", "n", "a", "m", "e", "=", "\"",
      "c", "a", "p", "t", "u", "r", "e", ".", "j", "p", "g", "\"">>
\* Line 225, without its "\r\n\r\n"
ContentType ==
    <<"C", "o", "n", "t", "e", "n", "t", "-", "T", "y", "p", "e", ":", " ",
      "i", "m", "a", "g", "e", "/", "j", "p", "e", "g">>
\* Lines 223-225: bodyStart.
BodyStart == Dashes \o Boundary \o CRLF \o Disposition \o CRLF \o ContentType \o CRLF \o CRLF
\* Line 226: bodyEnd.
BodyEnd == CRLF \o Dashes \o Boundary \o Dashes \o CRLF

\* Values of an image byte (0x00 and 0xff; bytes are written as strings, like
\* the characters of the header), and the images handed to sendToServer.
ImageBytes == {"00", "ff"}
Images == UNION {[1..n -> ImageBytes] : n \in 0..MaxImageLen}
\* A byte of freshly allocated memory.
Uninit == "uninit"

\* memcpy(buf + off, src, n)
Memcpy(buf, off, src, n) ==
    [i \in 1..Len(buf) |-> IF off < i /\ i <= off + n THEN src[i - off] ELSE buf[i]]

\* Everything sendToServer's assembly of the body leaves alone.
notEnc == <<prog, hist, env, cameraOk, refOutcome, refSignal,
            parsePc, response, printed, s3>>

EncIdle ==
    /\ encPc = "idle"
    /\ imageData = <<>>
    /\ totalLen = 0
    /\ encBody = <<>>
    /\ offset = 0
    /\ posted = <<>>

\* sendToServer(imageData, imageLen) is called with some image.
EncInit ==
    /\ encPc = "alloc"
    /\ imageData \in Images
    /\ totalLen = 0
    /\ encBody = <<>>
    /\ offset = 0
    /\ posted = <<>>

\* Lines 228-239: totalLen, ps_malloc(totalLen), offset = 0.
EncAlloc ==
    /\ encPc = "alloc"
    /\ totalLen' = Len(BodyStart) + Len(imageData) + Len(BodyEnd)
    /\ \/ encBody' = [i \in 1..totalLen' |-> Uninit] /\ encPc' = "copy_header"
       \/ encBody' = <<>> /\ encPc' = "alloc_failed"
    /\ offset' = 0
    /\ UNCHANGED <<imageData, posted>>
    /\ UNCHANGED notEnc

\* Lines 240-241: the header is copied and offset advanced.
EncCopyHeader ==
    /\ encPc = "copy_header"
    /\ encBody' = Memcpy(encBody, offset, BodyStart, Len(BodyStart))
    /\ offset' = offset + Len(BodyStart)
    /\ encPc' = "copy_image"
    /\ UNCHANGED <<imageData, totalLen, posted>>
    /\ UNCHANGED notEnc

\* EncCopyImage that forgets offset += imageLen.
EncCopyImageNoAdvance ==
    /\ encPc = "copy_image"
    /\ encBody' = Memcpy(encBody, offset, imageData, Len(imageData))
    /\ encPc' = "copy_footer"
    /\ UNCHANGED <<imageData, totalLen, posted, offset>>
    /\ UNCHANGED notEnc

\* Lines 242-243: the image is copied and offset advanced.
EncCopyImage ==
    /\ encPc = "copy_image"
    /\ encBody' = Memcpy(encBody, offset, imageData, Len(imageData))
    /\ offset' = offset + Len(imageData)
    /\ encPc' = "copy_footer"
    /\ UNCHANGED <<imageData, totalLen, posted>>
    /\ UNCHANGED notEnc

\* Line 244: the footer is copied.
EncCopyFooter ==
    /\ encPc = "copy_footer"
    /\ encBody' = Memcpy(encBody, offset, BodyEnd, Len(BodyEnd))
    /\ encPc' = "post"
    /\ UNCHANGED <<imageData, totalLen, posted, offset>>
    /\ UNCHANGED notEnc

\* Line 252: http.POST(body, totalLen).
EncPost ==
    /\ encPc = "post"
    /\ posted' = <<encBody, totalLen>>
    /\ encPc' = "posted"
    /\ UNCHANGED <<imageData, totalLen, encBody, offset>>
    /\ UNCHANGED notEnc

encVars == <<encPc, imageData, totalLen, encBody, offset, posted>>

EncNext ==
    \/ EncAlloc
    \/ EncCopyHeader
    \/ EncCopyImage
    \/ EncCopyFooter
    \/ EncPost

\* ------------------------------------------------------------ parseResponse()
\* A JSON member that may be missing: <<>> when it is, <<v>> when it holds v.
Opt(S) == {<<>>} \cup {<<v>> : v \in S}
\* variant | fallback of ArduinoJson: the member's value, or the fallback when
\* the member is missing.
Or(variant, fallback) == IF variant = <<>> THEN fallback ELSE variant[1]

\* The detection objects and the documents a well-formed response may hold.
Detections == [label : Opt({"Mug"}), category : Opt({"Kitchenware"}),
               minPrice : Opt({5}), maxPrice : Opt({15}), confidence : Opt({92})]
Docs == [success : Opt(BOOLEAN), error : Opt({"no object detected"}),
         detection : Opt(Detections)]
NullDoc == [success |-> <<>>, error |-> <<>>, detection |-> <<>>]
\* Response texts: those deserializeJson rejects (empty, truncated), which leave
\* the document empty, and those it turns into a document.
ResponseTexts ==
    [err : {TRUE}, raw : {"", "{\"success\":tr"}, doc : {NullDoc}]
        \cup [err : {FALSE}, raw : {"json"}, doc : Docs]

NoDetection == [label |-> <<>>, category |-> <<>>, minPrice |-> <<>>,
                maxPrice |-> <<>>, confidence |-> <<>>]

\* DetectionOf that, without a confidence member, reports no confidence value.
DetectionOfStrict(det) ==
    [label |-> Or(det.label, "Unknown"),
     category |-> Or(det.category, "Unknown"),
     minPrice |-> Or(det.minPrice, 0),
     maxPrice |-> Or(det.maxPrice, 0),
     confidence |-> Or(det.confidence, -1)]

\* Lines 199-204: the five members of the detection object, with their defaults.
DetectionOf(det) ==
    [label |-> Or(det.label, "Unknown"),
     category |-> Or(det.category, "Unknown"),
     minPrice |-> Or(det.minPrice, 0),
     maxPrice |-> Or(det.maxPrice, 0),
     confidence |-> Or(det.confidence, 0)]

\* ParseText that takes a missing success member for true.
ParseTextDefaultTrue(t) ==
    IF t.err
      THEN [kind |-> "ParseFailure", raw |-> t.raw, message |-> "", detection |-> <<>>]
      ELSE IF ~Or(t.doc.success, TRUE)
        THEN [kind |-> "ServerError", raw |-> "",
              message |-> Or(t.doc.error, "Unknown"), detection |-> <<>>]
        ELSE [kind |-> "Detection", raw |-> "", message |-> "",
              detection |-> <<DetectionOf(Or(t.doc.detection, NoDetection))>>]

\* parseResponse(response), lines 183-214: what it prints.
ParseText(t) ==
    IF t.err
      THEN [kind |-> "ParseFailure", raw |-> t.raw, message |-> "", detection |-> <<>>]
      ELSE IF ~Or(t.doc.success, FALSE)
        THEN [kind |-> "ServerError", raw |-> "",
              message |-> Or(t.doc.error, "Unknown"), detection |-> <<>>]
        ELSE [kind |-> "Detection", raw |-> "", message |-> "",
              detection |-> <<DetectionOf(Or(t.doc.detection, NoDetection))>>]

\* The shape of a response text, as the firmware's control flow sees it.
ShapeOf(t) ==
    IF t.err THEN "malformed"
    ELSE IF t.doc.success = <<>> THEN "success_absent"
    ELSE IF t.doc.success[1] THEN "success_true"
    ELSE "success_false"

\* Everything parseResponse leaves alone.
notParse == <<prog, hist, env, cameraOk, refOutcome, refSignal,
              encPc, imageData, totalLen, encBody, offset, posted, s3>>

ParseIdle ==
    /\ parsePc = "idle"
    /\ response = [err |-> TRUE, raw |-> "", doc |-> NullDoc]
    /\ printed = <<>>

\* parseResponse is called with some response text.
ParseInit ==
    /\ parsePc = "call"
    /\ response \in ResponseTexts
    /\ printed = <<>>

\* The call of parseResponse(response).
ParseCall ==
    /\ parsePc = "call"
    /\ printed' = <<ParseText(response)>>
    /\ parsePc' = "done"
    /\ UNCHANGED response
    /\ UNCHANGED notParse


\* ------------------------------------------------------------ Bumpbox_S3
\* The solenoid firmware's clock differences are counted in ticks of
\* S3_DEBOUNCE_MS, the greatest common divisor of its delays and periods.
S3Ticks(ms) == ms \div S3_DEBOUNCE_MS
PollCap == S3Ticks(POLL_INTERVAL) + 1
DebounceCap == S3Ticks(S3_DEBOUNCE_MS) + 1
\* delay(500) calls after which connectWiFi gives up (lines 40-46).
WifiWaitsMax == S3_WIFI_TIMEOUT_MS \div S3_WIFI_POLL_MS + 1
\* delay(500) calls connectWiFi may make: none, one, and as many as it can.
WifiWaits == {0, 1, WifiWaitsMax}
\* Time http.GET may take: none, or its whole timeout.
GetTicks == {0, S3Ticks(S3_HTTP_TIMEOUT_MS)}
Levels == {"LOW", "HIGH"}
\* Texts read on a 200: one deserializeJson rejects, and documents with
\* solenoidOn missing, true or false.
NoPayload == [err |-> TRUE, solenoidOn |-> <<>>]
Payloads == {NoPayload} \cup [err : {FALSE}, solenoidOn : Opt(BOOLEAN)]

\* Everything the solenoid firmware leaves alone.
notS3 == <<prog, hist, env, cameraOk, refOutcome, refSignal,
           encPc, imageData, totalLen, encBody, offset, posted,
           parsePc, response, printed>>

\* Time passing in the solenoid firmware: both differences grow.
S3Elapse(t) ==
    /\ sincePoll' = Min(sincePoll + t, PollCap)
    /\ sinceDebounce' = Min(sinceDebounce + t, DebounceCap)
    /\ stableFor' = Min(stableFor + t, DebounceCap)

\* The globals of lines 24-29 at boot; currentState is zero-initialised (LOW).
S3Globals ==
    /\ solenoidBackendOn = FALSE
    /\ lastSteadyState = "HIGH"
    /\ lastFlickerableState = "HIGH"
    /\ currentState = "LOW"
    /\ sincePoll = 0
    /\ sinceDebounce = 0
    /\ httpCode = 0
    /\ payload = NoPayload
    /\ lastReading = "none"
    /\ stableFor = 0
    /\ activations = 0

S3Idle == s3Pc = "idle" /\ relay = RELAY_OFF /\ S3Globals

\* Power-on: the relay pin is at whatever level the board leaves it.
S3Init == s3Pc = "setup" /\ relay \in Levels /\ S3Globals

\* connectWiFi(), lines 32-52: waits in steps of 500 ms until the link is up or
\* more than 15 s have passed.  It changes no global.
ConnectWiFi == \E k \in WifiWaits : S3Elapse(k * S3Ticks(S3_WIFI_POLL_MS))

\* setup(), lines 93-101: relay OFF, then connectWiFi().
S3Setup ==
    /\ s3Pc = "setup"
    /\ relay' = RELAY_OFF
    /\ ConnectWiFi
    /\ s3Pc' = "loop"
    /\ UNCHANGED <<solenoidBackendOn, lastSteadyState, lastFlickerableState,
                   currentState, httpCode, payload>>
    /\ UNCHANGED <<lastReading, activations>>
    /\ UNCHANGED notS3

\* Lines 105-108: the poll is due when more than POLL_INTERVAL has passed.  The
\* locals of the previous poll no longer exist.
S3LoopTop ==
    /\ s3Pc = "loop"
    /\ IF sincePoll > S3Ticks(POLL_INTERVAL)
         THEN sincePoll' = 0 /\ s3Pc' = "check"
         ELSE UNCHANGED sincePoll /\ s3Pc' = "read"
    /\ httpCode' = 0
    /\ payload' = NoPayload
    /\ UNCHANGED <<relay, solenoidBackendOn, lastSteadyState, lastFlickerableState,
                   currentState, sinceDebounce>>
    /\ UNCHANGED s3Hist
    /\ UNCHANGED notS3

\* checkSolenoidState(), lines 56-64: without a link connectWiFi() and return;
\* otherwise the GET.
S3Check ==
    /\ s3Pc = "check"
    /\ \E connected \in BOOLEAN :
          IF ~connected
            THEN /\ ConnectWiFi
                 /\ s3Pc' = "read"
                 /\ UNCHANGED <<httpCode, payload>>
            ELSE /\ \E c \in HttpCodes :
                       /\ httpCode' = c
                       /\ IF c = HTTP_OK THEN payload' \in Payloads
                                         ELSE payload' = NoPayload
                 /\ \E d \in GetTicks : S3Elapse(d)
                 /\ s3Pc' = "apply"
    /\ UNCHANGED <<relay, solenoidBackendOn, lastSteadyState, lastFlickerableState,
                   currentState>>
    /\ UNCHANGED <<lastReading, activations>>
    /\ UNCHANGED notS3

\* The poll was answered with 200 and a text that parses.
PollSucceeded == httpCode = HTTP_OK /\ ~payload.err
\* Line 71: bool newState = doc["solenoidOn"] | false;
NewState == Or(payload.solenoidOn, FALSE)

\* checkSolenoidState(), lines 65-89: a 200 with a text that parses sets
\* solenoidBackendOn and the relay when the state differs; anything else is
\* only logged.
S3Apply ==
    /\ s3Pc = "apply"
    /\ IF PollSucceeded /\ NewState # solenoidBackendOn
         THEN /\ solenoidBackendOn' = NewState
              /\ relay' = IF NewState THEN RELAY_ON ELSE RELAY_OFF
         ELSE UNCHANGED <<solenoidBackendOn, relay>>
    /\ s3Pc' = "read"
    /\ UNCHANGED <<lastSteadyState, lastFlickerableState, currentState, sincePoll,
                   sinceDebounce, httpCode, payload>>
    /\ UNCHANGED s3Hist
    /\ UNCHANGED notS3

\* Lines 111-116: read the switch; a reading that differs from the last one
\* restarts the debounce window.
S3Read ==
    /\ s3Pc = "read"
    /\ \E level \in Levels :
          /\ currentState' = level
          /\ IF level # lastFlickerableState
               THEN sinceDebounce' = 0 /\ lastFlickerableState' = level
               ELSE UNCHANGED <<sinceDebounce, lastFlickerableState>>
          /\ lastReading' = level
          /\ stableFor' = IF level # lastReading THEN 0 ELSE stableFor
    /\ s3Pc' = "debounce"
    /\ UNCHANGED <<relay, solenoidBackendOn, lastSteadyState, sincePoll, httpCode,
                   payload>>
    /\ UNCHANGED activations
    /\ UNCHANGED notS3

\* S3Debounce without the debounce window: every reading counts as steady.
S3DebounceNoWindow ==
    /\ s3Pc = "debounce"
    /\ IF lastSteadyState = "HIGH" /\ currentState = "LOW"
         THEN /\ s3Pc' = "lid"
              /\ activations' = Bump(activations)
              /\ UNCHANGED lastSteadyState
         ELSE /\ s3Pc' = "loop"
              /\ lastSteadyState' = currentState
              /\ activations' = IF currentState = "HIGH" THEN 0 ELSE activations
    /\ UNCHANGED <<relay, solenoidBackendOn, lastFlickerableState, currentState,
                   sincePoll, sinceDebounce, httpCode, payload>>
    /\ UNCHANGED <<lastReading, stableFor>>
    /\ UNCHANGED notS3

\* Lines 118-120 and 136: past the debounce window a HIGH -> LOW change starts
\* the local activation; any other reading becomes the steady state.
S3Debounce ==
    /\ s3Pc = "debounce"
    /\ IF sinceDebounce > S3Ticks(S3_DEBOUNCE_MS)
         THEN IF lastSteadyState = "HIGH" /\ currentState = "LOW"
                THEN /\ s3Pc' = "lid"
                     /\ activations' = Bump(activations)
                     /\ UNCHANGED lastSteadyState
                ELSE /\ s3Pc' = "loop"
                     /\ lastSteadyState' = currentState
                     /\ activations' = IF currentState = "HIGH" THEN 0 ELSE activations
         ELSE s3Pc' = "loop" /\ UNCHANGED <<lastSteadyState, activations>>
    /\ UNCHANGED <<relay, solenoidBackendOn, lastFlickerableState, currentState,
                   sincePoll, sinceDebounce, httpCode, payload>>
    /\ UNCHANGED <<lastReading, stableFor>>
    /\ UNCHANGED notS3

\* Lines 121-125: delay(LID_DELAY_MS); digitalWrite(RELAY_PIN, RELAY_ON);
S3Lid ==
    /\ s3Pc = "lid"
    /\ S3Elapse(S3Ticks(LID_DELAY_MS))
    /\ relay' = RELAY_ON
    /\ s3Pc' = "hold"
    /\ UNCHANGED <<solenoidBackendOn, lastSteadyState, lastFlickerableState,
                   currentState, httpCode, payload>>
    /\ UNCHANGED <<lastReading, activations>>
    /\ UNCHANGED notS3

\* S3Hold that always switches the relay off.
S3HoldAlwaysOff ==
    /\ s3Pc = "hold"
    /\ S3Elapse(S3Ticks(SOLENOID_ON_MS))
    /\ relay' = RELAY_OFF
    /\ lastSteadyState' = currentState
    /\ s3Pc' = "loop"
    /\ UNCHANGED <<solenoidBackendOn, lastFlickerableState, currentState, httpCode,
                   payload>>
    /\ UNCHANGED <<lastReading, activations>>
    /\ UNCHANGED notS3

\* Lines 126-136: delay(SOLENOID_ON_MS); relay OFF unless the backend state is
\* ON; lastSteadyState = currentState.
S3Hold ==
    /\ s3Pc = "hold"
    /\ S3Elapse(S3Ticks(SOLENOID_ON_MS))
    /\ relay' = IF ~solenoidBackendOn THEN RELAY_OFF ELSE relay
    /\ lastSteadyState' = currentState
    /\ s3Pc' = "loop"
    /\ UNCHANGED <<solenoidBackendOn, lastFlickerableState, currentState, httpCode,
                   payload>>
    /\ UNCHANGED <<lastReading, activations>>
    /\ UNCHANGED notS3

\* One tick of time passes.
S3Tick ==
    /\ s3Pc # "idle"
    /\ S3Elapse(1)
    /\ UNCHANGED <<s3Pc, relay, solenoidBackendOn, lastSteadyState,
                   lastFlickerableState, currentState, httpCode, payload>>
    /\ UNCHANGED <<lastReading, activations>>
    /\ UNCHANGED notS3

S3Next ==
    \/ S3Setup
    \/ S3LoopTop
    \/ S3Check
    \/ S3Apply
    \/ S3Read
    \/ S3Debounce
    \/ S3Lid
    \/ S3Hold
    \/ S3Tick

\* ------------------------------------------------------------ specification
\* Outside the camera firmware nothing happens.
AuxIdle == ObserverIdle /\ EncIdle /\ ParseIdle /\ S3Idle

Init == CameraInit /\ AuxIdle


\* sendToServer's assembly of the body, for every image up to MaxImageLen bytes.
EncStart == CameraInit /\ ObserverIdle /\ EncInit /\ ParseIdle /\ S3Idle
EncSpec == EncStart /\ [][EncNext]_vars

\* parseResponse, for every response text of ResponseTexts.
ParseStart == CameraInit /\ ObserverIdle /\ EncIdle /\ ParseInit /\ S3Idle
ParseSpec == ParseStart /\ [][ParseCall]_vars

\* The solenoid firmware.
S3Start == CameraInit /\ ObserverIdle /\ EncIdle /\ ParseIdle /\ S3Init
S3Spec == S3Start /\ [][S3Next]_vars

\* One step of the firmware's single control flow.
Step ==
    \/ Setup
    \/ Halt
    \/ WifiWait
    \/ LoopPoll
    \/ LoopDispatch
    \/ LoopCheck
    \/ LoopDelay
    \/ CsFlashOn
    \/ CsGet1
    \/ CsRet1
    \/ CsGet2
    \/ CsFlashOff
    \/ CsCheckNull
    \/ CsCheckSize
    \/ SendAlloc
    \/ SendPost
    \/ SendFree
    \/ SendResult
    \/ CsRelease
    \/ CsSignal
    \/ FlashOn
    \/ FlashOff

Environment ==
    \/ ButtonPress
    \/ ButtonRelease
    \/ SerialArrive
    \/ WifiChange

Next == Step \/ Environment

Spec == Init /\ [][Next]_vars

\* The processor always runs: a step of the firmware that is possible is taken.
FairSpec == Spec /\ WF_vars(Step)

\* ------------------------------------------------------------ outcomes
\* The outcome of a triggered iteration, read off what the firmware did.
Outcome ==
    IF wifiAtCheck = "absent" THEN "NoConnectivity"
    ELSE IF fb = NULL THEN "SensorFailure"
    ELSE IF fbLen > SIZE_LIMIT THEN "SizeLimitExceeded"
    ELSE IF posts = 0 THEN "AllocationFailure"
    ELSE IF code # HTTP_OK THEN "TransportFailure"
    ELSE IF parsed = "Detection" THEN "Success"
    ELSE parsed
\* The outcomes the status signals are to tell apart.
SignalledOutcomes == {"Success", "SensorFailure", "SizeLimitExceeded",
                      "TransportFailure", "ServerError", "ParseFailure",
                      "NoConnectivity"}
\* A triggered iteration has ended with an outcome.
Ended == pc = "loop_delay" /\ wifiAtCheck # "unchecked"
LastSignal == IF signals = <<>> THEN <<>> ELSE signals[Len(signals)]

\* The observer remembers the outcome and the signal of one ended iteration.
Remember ==
    /\ Ended
    /\ refOutcome = "none"
    /\ Outcome \in SignalledOutcomes
    /\ refOutcome' = Outcome
    /\ refSignal' = LastSignal
    /\ UNCHANGED <<prog, hist, env, cameraOk>>
    /\ UNCHANGED <<encPc, imageData, totalLen, encBody, offset, posted>>
    /\ UNCHANGED <<parsePc, response, printed, s3>>

\* The firmware with the observer.
PairSpec == Init /\ [][Next \/ Remember]_vars

\* ------------------------------------------------------------ properties
Range(q) == {q[i] : i \in 1..Len(q)}
Releases == released[1] + released[2]
\* The work of this iteration is over: loop() is at its delay(50), or about to
\* poll again.
IterationEnd == pc \in {"loop_delay", "loop_poll"}
\* captureAndSend was called in this iteration and has returned.
Returned == IterationEnd /\ wifiAtCheck = "connected"
\* Positions after the size check of line 296 has let the frame pass or not.
AfterSizeCheck == pc \in {"send_alloc", "send_post", "send_free", "send_result",
                          "cs_release", "cs_signal", "flash_on", "flash_off",
                          "loop_delay", "loop_poll"}

\* C1: when an invocation of captureAndSend returns, on whatever path, the
\* number of successful esp_camera_fb_get calls equals the number of
\* esp_camera_fb_return calls, and no frame is ever returned twice.
C1_AcquireReleaseBalanced ==
    /\ \A f \in FRAMES : released[f] <= 1
    /\ Returned => (acquired = Releases /\ held = {})

\* An invocation that acquired both frames and then failed in the transport.
C1_Witness == Returned /\ acquired = 2 /\ Releases = 2 /\ code < 0

\* C2: at most one frame is held in every state; the second acquisition is
\* requested only when the discarded frame has been released; no frame is held
\* when an invocation starts or after it has returned.
C2_AtMostOneFrameHeld ==
    /\ Cardinality(held) <= 1
    /\ pc \in {"cs_get1", "cs_get2"} => held = {}
    /\ ~InInvocation => held = {}

\* The second acquisition is about to be requested after a discard frame was
\* acquired and released.
C2_Witness == pc = "cs_get2" /\ acquired = 1 /\ released[1] = 1 /\ held = {}

\* C3: a frame longer than 1,000,000 bytes is released and answered with the
\* size-exceeded signal, with no payload allocated and no POST issued; a frame
\* of at most 1,000,000 bytes passes the size check.
C3_SizeLimit ==
    /\ (AfterSizeCheck /\ fb # NULL /\ fbLen > 1000000) =>
          /\ IterationEnd
          /\ signals # <<>> /\ signals[Len(signals)] = BlinkError(4)
          /\ allocs = 0 /\ posts = 0 /\ body = "none"
          /\ released[fb] = 1 /\ held = {}
    /\ (AfterSizeCheck /\ fb # NULL /\ fbLen <= 1000000) =>
          /\ BlinkError(4) \notin Range(signals)
          /\ postedFrame = fb
          /\ pc # "send_alloc" => allocs = 1

\* A frame of 1,000,001 bytes was rejected.
C3_Witness == pc = "loop_delay" /\ fb = 2 /\ fbLen = 1000001 /\ signals = <<BlinkError(4)>>

\* C4 (as claimed): the success signal is emitted only when parseResponse
\* produced a detection; any failed stage leaves it unemitted.
C4_SuccessOnlyWithDetection ==
    FlashSignal \in Range(signals) => parsed = "Detection"

\* C5: the flash is on at both acquisitions, and is off from the return of the
\* second acquisition onwards: during the NULL check, the size check, the
\* building of the payload and the POST.
C5_FlashOnlyDuringCapture ==
    /\ pc \in {"cs_get1", "cs_ret1", "cs_get2", "cs_flash_off"} => flashLed
    /\ pc \in {"cs_check_null", "cs_check_size", "send_alloc", "send_post",
               "send_free", "send_result", "cs_release", "cs_signal"} => ~flashLed
    /\ body = "alloc" => ~flashLed

\* The POST is about to be issued with the flash off.
C5_Witness == pc = "send_post" /\ body = "alloc" /\ ~flashLed /\ acquired = 2

\* C6: the frame handed to sendToServer is the one of the second acquisition,
\* which was made with the flash on and with the discarded frame released.
C6_UploadsSecondFrame ==
    /\ postedFrame # NULL => (postedFrame = 2 /\ released[1] = acquired - 1)
    /\ 2 \in held => 1 \notin held
    /\ (pc = "cs_flash_off" /\ fb # NULL) => (fb = 2 /\ flashLed)

\* A POST was issued for the second frame after the first was discarded.
C6_Witness == posts = 1 /\ postedFrame = 2 /\ acquired = 2 /\ released[1] = 1

\* C7: when the check of line 371 finds no connection, the iteration ends with
\* the no-WiFi signal: the flash stays off, no frame is acquired, nothing is
\* allocated or POSTed; nor is any of this done while reconnecting.
C7_NoCaptureWithoutWifi ==
    /\ wifiAtCheck = "absent" =>
          /\ IterationEnd
          /\ ~flashLed /\ acquired = 0 /\ allocs = 0 /\ posts = 0 /\ held = {}
          /\ signals # <<>> /\ signals[Len(signals)] = BlinkError(3)
    /\ (pc = "wifi_wait" /\ wifiRet = "loop") =>
          (~flashLed /\ acquired = 0 /\ posts = 0)

\* The reconnect attempt timed out and the trigger ended in the no-WiFi signal.
C7_Witness ==
    /\ pc = "loop_delay" /\ trigger /\ wifiAtCheck = "absent"
    /\ signals = <<BlinkError(3), BlinkError(3)>>

\* C8: once the camera is initialized, from every position of the firmware
\* control comes back to the trigger poll of loop(); no failure halts it.
C8_ReturnsToPolling == (pc \notin {"setup", "halt"}) ~> (pc = "loop_poll")

\* Back at the poll after a transport timeout.
C8_Witness == pc = "loop_poll" /\ code = -11 /\ signals = <<BlinkError(5)>>

\* C9 (as claimed): no invocation is caused by a trigger event (here: a serial
\* command) that arrived while the previous invocation was in progress.
C9_MidPipelineTriggerIgnored == ~(InInvocation /\ trigMid)

\* C10 (as claimed): one continuous press of the button delivers at most one
\* trigger.
C10_OneTriggerPerPress == pressTriggers <= 1

\* C11 (as claimed): two iterations that end in different outcomes end with
\* different status signals, and every outcome ends with some signal.
C11_DistinctSignalPerOutcome ==
    Ended =>
       /\ signals # <<>>
       /\ (Outcome \in SignalledOutcomes /\ refOutcome \notin {"none", Outcome})
             => refSignal # LastSignal

\* C12: once initCamera() has failed the firmware is in the halt loop of
\* setup() and stays there: connectWiFi() and loop() are never entered, no frame
\* is acquired, nothing is POSTed, and only the error blink is signalled.
C12_InitFailureHalts ==
    cameraOk = "failed" =>
       /\ pc = "halt"
       /\ acquired = 0 /\ allocs = 0 /\ posts = 0 /\ held = {} /\ ~flashLed
       /\ wifiAtCheck = "unchecked" /\ ~trigger
       /\ Range(signals) \subseteq {BlinkError(3)}

\* The halt loop has blinked after a failed initCamera().
C12_Witness == cameraOk = "failed" /\ pc = "halt" /\ signals = <<BlinkError(3)>>

\* C13: the body handed to http.POST is the header bytes, then the image bytes
\* unchanged and in order, then the footer bytes, and the length handed over
\* is header length + image length + footer length, for every image length.
C13_BodyIsHeaderImageFooter ==
    encPc = "posted" =>
       /\ posted[1] = BodyStart \o imageData \o BodyEnd
       /\ posted[2] = Len(BodyStart) + Len(imageData) + Len(BodyEnd)
       /\ Len(posted[1]) = posted[2]
       /\ offset = Len(BodyStart) + Len(imageData)

\* A two-byte image and an empty image have been posted.
C13_Witness == encPc = "posted" /\ Len(imageData) = 2 /\ posted[2] = 160
\* The result parseResponse printed.
Result == printed[1]
Parsed == parsePc = "done"

\* C14: parseResponse reports exactly one of three results: a text that does
\* not parse gives ParseFailure with the raw text; a document whose success
\* member is false or missing gives ServerError with the error member, or
\* "Unknown" without one; a document with success true gives a detection.  The
\* first two carry no detection.
C14_ThreeWayClassification ==
    Parsed =>
       /\ Result.kind \in {"ParseFailure", "ServerError", "Detection"}
       /\ Result.kind = ParseResponse(ShapeOf(response))
       /\ response.err =>
             (Result.kind = "ParseFailure" /\ Result.raw = response.raw)
       /\ (~response.err /\ response.doc.success \in {<<>>, <<FALSE>>}) =>
             /\ Result.kind = "ServerError"
             /\ Result.message = IF response.doc.error = <<>> THEN "Unknown"
                                 ELSE response.doc.error[1]
       /\ (~response.err /\ response.doc.success = <<TRUE>>) =>
             Result.kind = "Detection"
       /\ Result.kind # "Detection" <=> Result.detection = <<>>

\* A document without success and without error gave ServerError("Unknown").
C14_Witness ==
    /\ Parsed /\ ~response.err /\ response.doc.success = <<>>
    /\ Result.kind = "ServerError" /\ Result.message = "Unknown"

\* The member m of the response's detection object: <<>> when the member or
\* the whole object is missing.
Member(m) ==
    IF response.doc.detection = <<>> THEN <<>> ELSE response.doc.detection[1][m]
Defaults == [label |-> "Unknown", category |-> "Unknown", minPrice |-> 0,
             maxPrice |-> 0, confidence |-> 0]

\* C15: for a document with success true the parse succeeds whatever is
\* missing; every missing member of the detection object (or of a missing
\* object) is reported with its default, every present member with its value.
C15_MissingFieldsDefault ==
    (Parsed /\ ~response.err /\ response.doc.success = <<TRUE>>) =>
       /\ Result.kind = "Detection"
       /\ \A m \in DOMAIN Defaults :
             Result.detection[1][m] =
                IF Member(m) = <<>> THEN Defaults[m] ELSE Member(m)[1]

\* A detection object without confidence gave confidence 0 and kept its label.
C15_Witness ==
    /\ Parsed /\ response.doc.success = <<TRUE>>
    /\ response.doc.detection # <<>>
    /\ Member("confidence") = <<>> /\ Member("label") = <<"Mug">>
    /\ Result.kind = "Detection"
    /\ Result.detection[1].confidence = 0 /\ Result.detection[1].label = "Mug"

\* Positions inside sendToServer after free(body), and everything after it.
AfterFree == pc \in {"send_result", "cs_release", "cs_signal", "flash_on",
                     "flash_off", "loop_delay", "loop_poll"}

\* C16: within one invocation at most one payload allocation is attempted and
\* at most one POST is issued; a failed allocation is followed by no POST, and
\* a failed or non-200 POST by no further allocation or POST.
C16_NoRetry ==
    /\ allocs <= 1
    /\ posts <= allocs
    /\ (allocs = 1 /\ body = "none") => posts = 0
    /\ (AfterFree /\ posts = 1 /\ code # HTTP_OK) =>
          (allocs = 1 /\ pc # "send_alloc" /\ pc # "send_post")

\* An invocation has returned after a POST answered with 500, posted once.
C16_Witness ==
    Returned /\ allocs = 1 /\ posts = 1 /\ code = 500 /\ ok = "false"

\* C17: the POST is issued only with an allocated payload that is not yet
\* freed; the payload is freed by the one free(body) that follows the POST,
\* whatever the POST returned; no payload is held when the invocation returns.
C17_PayloadFreedOnce ==
    /\ pc = "send_post" => (body = "alloc" /\ posts = 0)
    /\ pc = "send_free" => (body = "alloc" /\ posts = 1)
    /\ body = "freed" => (allocs = 1 /\ posts = 1 /\ AfterFree)
    /\ (AfterFree /\ posts = 1) => body = "freed"
    /\ body = "alloc" => pc \in {"send_post", "send_free"}
    /\ IterationEnd => body # "alloc"

\* An invocation has returned after a POST that failed in transport, with the
\* payload freed.
C17_Witness == Returned /\ posts = 1 /\ code < 0 /\ body = "freed"

\* The signals captureAndSend emitted in this iteration: blinkError(3) is
\* emitted only by connectWiFi and by loop().
IsOutcomeSignal(sig) == sig # BlinkError(3)
OutcomeSignals == SelectSeq(signals, IsOutcomeSignal)

\* C18: an invocation of captureAndSend emits exactly one of the success
\* flash, blinkError(4) and blinkError(5) before it returns, never none and
\* never two.
C18_ExactlyOneSignal ==
    /\ Len(OutcomeSignals) <= 1
    /\ Returned =>
          /\ Len(OutcomeSignals) = 1
          /\ OutcomeSignals[1] \in {FlashSignal, BlinkError(4), BlinkError(5)}
    /\ wifiAtCheck # "connected" => OutcomeSignals = <<>>

\* An invocation whose second acquisition failed has returned with the one
\* blinkError(5).
C18_Witness ==
    Returned /\ fb = NULL /\ acquired = 1 /\ OutcomeSignals = <<BlinkError(5)>>

\* Positions where the firmware waits for a trigger or handles one outside
\* captureAndSend.
Waiting == pc \in {"wifi_wait", "loop_poll", "loop_dispatch", "loop_check",
                   "loop_delay"}

\* C19: the flash LED is off whenever the firmware is outside captureAndSend
\* and its success signal: after setup, while polling, and after every exit of
\* captureAndSend.
C19_FlashOffWhileWaiting ==
    (Waiting \/ pc = "halt") => ~flashLed

\* captureAndSend has returned on its success path, whose signal blinked the
\* flash LED, and the LED is off.
C19_Witness ==
    Returned /\ signals[Len(signals)] = FlashSignal /\ ~flashLed

\* loop() is about to be entered again.
LoopBoundary == s3Pc = "loop"

\* C20: at every loop-iteration boundary the relay is ON exactly when
\* solenoidBackendOn is true; a poll that failed or did not parse changes
\* neither the relay nor solenoidBackendOn; and the local activation ends with
\* the relay OFF exactly when solenoidBackendOn is false.
C20_RelayFollowsBackend ==
    /\ [](LoopBoundary => (relay = RELAY_ON <=> solenoidBackendOn))
    /\ [][(s3Pc = "apply" /\ ~PollSucceeded) =>
             UNCHANGED <<relay, solenoidBackendOn>>]_vars
    /\ [][s3Pc = "check" => UNCHANGED <<relay, solenoidBackendOn>>]_vars
    /\ [][(s3Pc = "hold" /\ s3Pc' = "loop") =>
             (relay' = RELAY_OFF <=> ~solenoidBackendOn')]_vars

\* A local activation has ended with the relay still ON, the backend state
\* being ON, and the iteration's poll had failed.
C20_Witness ==
    /\ LoopBoundary /\ solenoidBackendOn /\ relay = RELAY_ON
    /\ lastSteadyState = "LOW" /\ httpCode = 500

\* A local activation is under way: from its start to the end of its hold.
Activating == s3Pc \in {"lid", "hold"}

\* C21: a local activation starts only when the switch readings have been LOW
\* and unchanged for more than DEBOUNCE_MS while the steady state is HIGH; a
\* steady closing starts exactly one activation, and none follows until steady
\* HIGH has been registered again.
C21_OneActivationPerClosing ==
    /\ s3Pc = "lid" =>
          /\ lastReading = "LOW" /\ currentState = "LOW"
          /\ stableFor > S3Ticks(S3_DEBOUNCE_MS)
    /\ Activating => (lastSteadyState = "HIGH" /\ activations = 1)
    /\ activations <= 1
    /\ lastSteadyState = "LOW" => activations = 1
    /\ (activations = 1 /\ ~Activating) => lastSteadyState = "LOW"

\* After an activation the switch is still read LOW, past the debounce window,
\* and no second activation has started.
C21_Witness ==
    /\ s3Pc = "loop" /\ lastSteadyState = "LOW" /\ currentState = "LOW"
    /\ lastReading = "LOW" /\ stableFor > S3Ticks(S3_DEBOUNCE_MS)
    /\ sincePoll > S3Ticks(LID_DELAY_MS + SOLENOID_ON_MS)
    /\ activations = 1 /\ httpCode = 0

====
